---- MODULE Spec2Model ----
(***************************************************************************)
(* contexttimer: the Timer context manager and the timer decorator of      *)
(* src/contexttimer/__init__.py.                                           *)
(*                                                                         *)
(* Timestamps are integers 0..MaxTime (the time source's unit), factors    *)
(* are integers, so (end - start) * factor is exact.  Two specifications:  *)
(*   SpecTimer  one Timer object driven through the context-manager        *)
(*              protocol (__enter__, __exit__, reads of elapsed) while     *)
(*              the time source advances;                                  *)
(*   SpecDeco   calls of timer(...), the application of the factory it     *)
(*              returns, and invocations of the decorated callable.        *)
(***************************************************************************)
EXTENDS Integers, Sequences, FiniteSets

\* ------------------------------------------------------------------ bounds
\* Largest reading of the time source.
MaxTime == 2
\* Deepest nesting of with-blocks on one Timer object.
MaxDepth == 2
\* Number of __exit__ calls followed on one Timer object.
MaxExits == 2
\* Most leftover positional arguments (after logger) given to timer(...).
MaxLeftover == 2

\* ------------------------------------------------------------------ values
\* Python's None, as the value of Timer.end.
None == -1
\* The attribute Timer.start before the first __enter__: __init__ does not
\* create it.
Unset == -2

Times == 0..MaxTime
\* Values of the factor option; 1 is the default of Timer.__init__.
DefaultFactor == 1
Factors == {-1, 0, 1, 2}

\* ------------------------------------------------------------------ Timer
\* Timer.__init__(timer, factor): the object's attributes.  endWrites counts
\* the assignments __exit__ makes to end (history, not an attribute).
Timer_init(factor) ==
  [factor |-> factor, start |-> Unset, end |-> None, endWrites |-> 0]

\* Timer.__call__: the current reading of the time source.
Timer_call(self, reading) == reading

Timer_enter_resets_end(self, reading) ==
  [self EXCEPT !.start = Timer_call(self, reading), !.end = None]

\* Timer.__enter__: start = self(); end is left as it is.
Timer_enter(self, reading) ==
  [self EXCEPT !.start = Timer_call(self, reading)]

Timer_exit_suppresses(self, reading) ==
  [self |-> [self EXCEPT !.end = Timer_call(self, reading),
                         !.endWrites = @ + 1],
   suppress |-> TRUE]

\* Timer.__exit__: end = self(); returns None, so the with statement does not
\* suppress the body's exception.
Timer_exit(self, reading) ==
  [self |-> [self EXCEPT !.end = Timer_call(self, reading),
                         !.endWrites = @ + 1],
   suppress |-> FALSE]

Timer_elapsed_no_factor(self, reading) ==
  IF self.end = None
    THEN IF self.start = Unset
           THEN [self |-> self, kind |-> "AttributeError", value |-> 0,
                 called |-> TRUE]
           ELSE [self |-> self, kind |-> "live",
                 value |-> Timer_call(self, reading) - self.start,
                 called |-> TRUE]
    ELSE [self |-> self, kind |-> "frozen",
          value |-> self.end - self.start, called |-> FALSE]

Timer_elapsed_always_live(self, reading) ==
  IF self.start = Unset
    THEN [self |-> self, kind |-> "AttributeError", value |-> 0,
          called |-> TRUE]
    ELSE [self |-> self,
          kind |-> IF self.end = None THEN "live" ELSE "frozen",
          value |-> (Timer_call(self, reading) - self.start) * self.factor,
          called |-> TRUE]

Timer_elapsed_reversed(self, reading) ==
  IF self.end = None
    THEN IF self.start = Unset
           THEN [self |-> self, kind |-> "AttributeError", value |-> 0,
                 called |-> TRUE]
           ELSE [self |-> self, kind |-> "live",
                 value |-> (self.start - Timer_call(self, reading)) * self.factor,
                 called |-> TRUE]
    ELSE [self |-> self, kind |-> "frozen",
          value |-> (self.end - self.start) * self.factor, called |-> FALSE]

\* Timer.elapsed (property).  With end None it calls the time source and
\* then reads self.start, which raises AttributeError before the first
\* __enter__; with end set it reads the two attributes only.  The result
\* carries the object after the access and whether the source was called.
Timer_elapsed(self, reading) ==
  IF self.end = None
    THEN IF self.start = Unset
           THEN [self |-> self, kind |-> "AttributeError", value |-> 0,
                 called |-> TRUE]
           ELSE [self |-> self, kind |-> "live",
                 value |-> (Timer_call(self, reading) - self.start) * self.factor,
                 called |-> TRUE]
    ELSE [self |-> self, kind |-> "frozen",
          value |-> (self.end - self.start) * self.factor, called |-> FALSE]

\* '%.3f' % x for an integer x: the integer part and three zero decimals.
Fmt3(x) == [int |-> x, frac |-> <<0, 0, 0>>]

\* Timer.__str__
Timer_str(self, reading) == Fmt3(Timer_elapsed(self, reading).value)


\* ------------------------------------------------ one Timer object in use
VARIABLES
  t,          \* the Timer object: [factor, start, end, endWrites]
  now,        \* what the time source returns when called in this state
  mono,       \* whether the time source is monotonic (never goes back)
  scopes,     \* readings taken by the __enter__ of each open with-block
  released,   \* the latest of __enter__/__exit__ on t was an __exit__
  lastEnter,  \* reading taken by the latest __enter__ (a)
  lastExit,   \* reading taken by the latest __exit__ (b)
  nExit,      \* number of __exit__ calls made on t
  lastRead,   \* latest read of t.elapsed since the latest __enter__/__exit__
  prevRead    \* the read before lastRead, in the same period

NoRead ==
  [kind |-> "none", value |-> 0, at |-> 0, called |-> FALSE, mutated |-> FALSE]

\* The time source moves on between two calls of it.  A monotonic source
\* only moves forward; any other source may return any reading.
Advance ==
  /\ \E r \in Times :
       /\ r # now
       /\ mono => r > now
       /\ now' = r

\* `with t:` begins (or t.__enter__() is called by hand).
Enter ==
  /\ Len(scopes) < MaxDepth
  /\ t' = Timer_enter(t, now)
  /\ scopes' = Append(scopes, now)
  /\ released' = FALSE
  /\ lastEnter' = now
  /\ lastRead' = NoRead
  /\ prevRead' = NoRead
  /\ UNCHANGED <<now, mono, lastExit, nExit>>

\* The innermost open with-block ends, normally or by an exception of its
\* body: the with statement calls __exit__ either way.  __exit__ ignores its
\* three arguments.
Exit ==
  /\ Len(scopes) > 0
  /\ nExit < MaxExits
  /\ t' = Timer_exit(t, now).self
  /\ scopes' = SubSeq(scopes, 1, Len(scopes) - 1)
  /\ released' = TRUE
  /\ lastExit' = now
  /\ nExit' = nExit + 1
  /\ lastRead' = NoRead
  /\ prevRead' = NoRead
  /\ UNCHANGED <<now, mono, lastEnter>>

\* A read of t.elapsed, at any point of the object's life.
ReadElapsed ==
  /\ LET r == Timer_elapsed(t, now) IN
       /\ t' = r.self
       /\ lastRead' = [kind |-> r.kind, value |-> r.value, at |-> now,
                       called |-> r.called, mutated |-> r.self # t]
  /\ prevRead' = lastRead
  /\ UNCHANGED <<now, mono, scopes, released, lastEnter, lastExit, nExit>>


\* ------------------------------------------------------------ the decorator
\* Python objects handed to timer(...) and to the decorated callable, by name.
Callables == {"f", "g"}          \* functions
Sinks == {"log", "emptyLog"}     \* objects with a debug method; emptyLog is
                                 \* one whose truth value is False (an empty
                                 \* container that collects the messages)
NoneObj == "None"
PlainObjs == {"obj", "a"}        \* neither callable nor a sink

\* isinstance(x, collections.Callable), on the Pythons that have the name
\* (it was removed from collections in 3.10).
IsCallable(x) == x \in Callables
\* bool(x)
Truthy(x) == x \notin {NoneObj, "emptyLog"}
\* hasattr(x, "debug")
HasDebug(x) == x \in Sinks
\* f.__name__
NameOf(f) == f

\* Keyword arguments are sets of <<name, value>> pairs.
NoKw == {}
TimerKwargs == {NoKw} \cup {{<<"factor", v>>} : v \in Factors}
\* The factor Timer(**kw) is constructed with.
FactorOf(kw) ==
  IF \E p \in kw : p[1] = "factor"
    THEN (CHOOSE p \in kw : p[1] = "factor")[2]
    ELSE DefaultFactor

\* f(*args, **kw) for one of the functions: a value that names the function
\* and the arguments it received.
FunReturn(fn, args, kw) == [fn |-> fn, args |-> args, kw |-> kw]
NoVal == [fn |-> NoneObj, args |-> <<>>, kw |-> NoKw]

NoDeco ==
  [kind |-> "none", f |-> NoneObj, name |-> NoneObj, logger |-> NoneObj,
   timer_args |-> <<>>, timer_kwargs |-> NoKw]

wrapped_f_keeps_own_name(closure, f) ==
  [closure EXCEPT !.kind = "wrapper", !.f = f, !.name = "wrapped"]

\* wrapped_f(f): the wrapper, a closure over f, logger and timer_kwargs;
\* functools.wraps(f) gives it f's __name__.
wrapped_f(closure, f) ==
  [closure EXCEPT !.kind = "wrapper", !.f = f, !.name = NameOf(f)]

timer_wraps_first_leftover(pos, kwLogger, kwargs) ==
  LET logger == IF Len(pos) > 0 THEN pos[1] ELSE kwLogger
      func_or_func_args == IF Len(pos) > 0 THEN Tail(pos) ELSE <<>>
      factory == [kind |-> "factory", f |-> NoneObj, name |-> "wrapped_f",
                  logger |-> logger, timer_args |-> func_or_func_args,
                  timer_kwargs |-> kwargs]
  IN  IF Len(func_or_func_args) >= 1 /\ IsCallable(func_or_func_args[1])
        THEN wrapped_f(factory, func_or_func_args[1])
        ELSE factory

\* timer(*pos, logger=kwLogger, **kwargs).  The first positional argument is
\* bound to the parameter logger, the rest to func_or_func_args.
timer(pos, kwLogger, kwargs) ==
  LET logger == IF Len(pos) > 0 THEN pos[1] ELSE kwLogger
      func_or_func_args == IF Len(pos) > 0 THEN Tail(pos) ELSE <<>>
      factory == [kind |-> "factory", f |-> NoneObj, name |-> "wrapped_f",
                  logger |-> logger, timer_args |-> func_or_func_args,
                  timer_kwargs |-> kwargs]
  IN  IF Len(func_or_func_args) = 1 /\ IsCallable(func_or_func_args[1])
        THEN wrapped_f(factory, func_or_func_args[1])
        ELSE factory

\* wrapped, up to the call of f: `with Timer(**timer_kwargs) as t`.
wrapped_enter(w, reading) ==
  Timer_enter(Timer_init(FactorOf(w.timer_kwargs)), reading)

\* wrapped, the report after the with-block.  logger.debug raises
\* AttributeError on a truthy logger that has no debug method.
report(w, tm, reading) ==
  LET e == Timer_elapsed(tm, reading).value IN
  IF Truthy(w.logger)
    THEN IF HasDebug(w.logger)
           THEN [debug |-> <<[template |-> "function %s execution time: %.3f",
                              name |-> NameOf(w.f), elapsed |-> e]>>,
                 out |-> <<>>, exc |-> "none"]
           ELSE [debug |-> <<>>, out |-> <<>>, exc |-> "AttributeError"]
    ELSE [debug |-> <<>>,
          out |-> <<[name |-> NameOf(w.f), elapsed |-> Fmt3(e)]>>,
          exc |-> "none"]

\* wrapped, when f returned out: the with-block ends (__exit__), the report
\* is made, out is returned.
wrapped_on_return(w, tm, reading, out) ==
  LET ex == Timer_exit(tm, reading)
      rep == report(w, ex.self, reading)
  IN  [t |-> ex.self, debug |-> rep.debug, out |-> rep.out,
       result |-> IF rep.exc = "none"
                    THEN [kind |-> "return", val |-> out, exc |-> "none"]
                    ELSE [kind |-> "raise", val |-> NoVal, exc |-> rep.exc]]

wrapped_on_raise_reports(w, tm, reading, exc) ==
  LET ex == Timer_exit(tm, reading)
      rep == report(w, ex.self, reading)
  IN  [t |-> ex.self, debug |-> rep.debug, out |-> rep.out,
       result |-> [kind |-> "raise", val |-> NoVal, exc |-> exc]]

\* wrapped, when f raised exc: the with statement calls __exit__ and, as
\* __exit__ returns a false value, re-raises exc; the lines after the
\* with-block do not run.  (Were the exception suppressed, they would run
\* with out unbound.)
wrapped_on_raise(w, tm, reading, exc) ==
  LET ex == Timer_exit(tm, reading)
      rep == report(w, ex.self, reading)
  IN  IF ex.suppress
        THEN [t |-> ex.self, debug |-> rep.debug, out |-> rep.out,
              result |-> [kind |-> "raise", val |-> NoVal,
                          exc |-> IF rep.exc = "none"
                                    THEN "UnboundLocalError" ELSE rep.exc]]
        ELSE [t |-> ex.self, debug |-> <<>>, out |-> <<>>,
              result |-> [kind |-> "raise", val |-> NoVal, exc |-> exc]]


\* wrapped_f(*args, **kw) called on the factory itself, as happens when the
\* name bound by a decoration that returned the factory is called like the
\* function: the outcomes Python can produce.  With one positional argument
\* it returns a wrapper of that argument (functools.wraps raises
\* AttributeError on an object without __name__ under Python 2 and copies
\* nothing under Python 3); any other argument list is a TypeError.
factory_call(w, args, kw) ==
  IF Len(args) = 1 /\ kw = NoKw
    THEN IF IsCallable(args[1])
           THEN {[kind |-> "returnWrapper", val |-> NoVal, exc |-> "none"]}
           ELSE {[kind |-> "returnWrapper", val |-> NoVal, exc |-> "none"],
                 [kind |-> "raise", val |-> NoVal, exc |-> "AttributeError"]}
    ELSE {[kind |-> "raise", val |-> NoVal, exc |-> "TypeError"]}

wrapped_calls_without_kwargs(w, args, kw) ==
  <<[fn |-> w.f, args |-> args, kw |-> NoKw]>>

\* wrapped: the calls it makes to f for wrapped(*args, **kw): f(*args, **kwargs).
wrapped_calls(w, args, kw) == <<[fn |-> w.f, args |-> args, kw |-> kw]>>

VARIABLES
  decorated,  \* the object the decoration produced (wrapper or factory)
  form,       \* how it was produced: "bare", "configured" or "direct"
  target,     \* the function the decoration was meant for / applied to
  given,      \* the arguments of the latest timer(...) call
  applied,    \* the factory of a direct timer(...) call has been applied
  pc,         \* "idle", "body" (inside f, in the with-block) or "done"
  callArgs,   \* positional arguments of the current invocation
  callKw,     \* keyword arguments of the current invocation
  fCalls,     \* calls made to the wrapped function in this invocation
  debugCalls, \* calls of logger.debug made in this invocation
  stdout,     \* lines printed in this invocation
  result,     \* how the invocation ended: a return value or an exception
  fOutcome    \* how f ended in this invocation: "none", "return", "raise"

timerVars == <<scopes, released, lastEnter, lastExit, nExit, lastRead, prevRead>>
decoVars == <<decorated, form, target, given, applied, pc, callArgs, callKw,
              fCalls, debugCalls, stdout, result, fOutcome>>
vars == <<t, now, mono, timerVars, decoVars>>

NoResult == [kind |-> "none", val |-> NoVal, exc |-> "none"]
NoGiven == [pos |-> <<>>, kwLogger |-> NoneObj, kwargs |-> NoKw]

\* Argument lists the decorated callable is invoked with.
CallArgs == {<<>>, <<"a">>, <<"g">>, <<"a", "g">>}
CallKws == {NoKw, {<<"k", "a">>}}
\* Loggers given by keyword; positional arguments of a direct timer(...) call.
KwLoggers == {NoneObj} \cup Sinks
FirstPos == {NoneObj, "log", "f"}
RestPos == {"g", "obj"}
RECURSIVE SeqsUpTo(_, _)
SeqsUpTo(S, n) ==
  IF n = 0 THEN {<<>>}
  ELSE LET shorter == SeqsUpTo(S, n - 1)
       IN  shorter \cup {Append(q, x) : q \in shorter, x \in S}
PosLists ==
  {<<>>} \cup {<<l>> \o rest : l \in FirstPos, rest \in SeqsUpTo(RestPos, MaxLeftover)}

ResetInvocation ==
  /\ pc' = "idle"
  /\ callArgs' = <<>>
  /\ callKw' = NoKw
  /\ fCalls' = <<>>
  /\ debugCalls' = <<>>
  /\ stdout' = <<>>
  /\ result' = NoResult
  /\ fOutcome' = "none"

\* A behaviour follows one decoration and the invocations of its result.
\* @timer
\* def f(...): ...        i.e. f = timer(f)
DecorateBare ==
  /\ decorated.kind = "none"
  /\ \E f \in Callables :
       /\ decorated' = timer(<<f>>, NoneObj, NoKw)
       /\ given' = [pos |-> <<f>>, kwLogger |-> NoneObj, kwargs |-> NoKw]
       /\ target' = f
  /\ form' = "bare"
  /\ applied' = FALSE
  /\ ResetInvocation
  /\ UNCHANGED <<t, now, mono, timerVars>>

\* @timer(logger=lg, **kw)
\* def f(...): ...        i.e. f = timer(logger=lg, **kw)(f)
DecorateConfigured ==
  /\ decorated.kind = "none"
  /\ \E lg \in KwLoggers, kw \in TimerKwargs, f \in Callables :
       /\ decorated' = wrapped_f(timer(<<>>, lg, kw), f)
       /\ given' = [pos |-> <<>>, kwLogger |-> lg, kwargs |-> kw]
       /\ target' = f
  /\ form' = "configured"
  /\ applied' = TRUE
  /\ ResetInvocation
  /\ UNCHANGED <<t, now, mono, timerVars>>

\* A call timer(*pos, **kw) with any positional arguments.
CallTimer ==
  /\ decorated.kind = "none"
  /\ \E pos \in PosLists, kw \in TimerKwargs :
       /\ decorated' = timer(pos, NoneObj, kw)
       /\ given' = [pos |-> pos, kwLogger |-> NoneObj, kwargs |-> kw]
  /\ target' = NoneObj
  /\ form' = "direct"
  /\ applied' = FALSE
  /\ ResetInvocation
  /\ UNCHANGED <<t, now, mono, timerVars>>

\* The factory a direct call returned is applied to the target callable.
ApplyFactory ==
  /\ pc # "body"
  /\ form = "direct"
  /\ decorated.kind = "factory"
  /\ \E f \in Callables :
       /\ decorated' = wrapped_f(decorated, f)
       /\ target' = f
  /\ applied' = TRUE
  /\ ResetInvocation
  /\ UNCHANGED <<t, now, mono, timerVars, form, given>>

\* decorated(*args, **kw) on a wrapper: the Timer is constructed and
\* entered, f is called.
Invoke ==
  /\ pc # "body"
  /\ decorated.kind = "wrapper"
  /\ \E args \in CallArgs, kw \in CallKws :
       /\ callArgs' = args
       /\ callKw' = kw
       /\ fCalls' = wrapped_calls(decorated, args, kw)
  /\ t' = wrapped_enter(decorated, now)
  /\ pc' = "body"
  /\ debugCalls' = <<>>
  /\ stdout' = <<>>
  /\ result' = NoResult
  /\ fOutcome' = "none"
  /\ UNCHANGED <<now, mono, timerVars, decorated, form, target, given, applied>>

\* decorated(*args, **kw) when the bare decoration left the factory bound to
\* the function's name.
InvokeFactory ==
  /\ pc # "body"
  /\ form = "bare"
  /\ decorated.kind = "factory"
  /\ \E args \in CallArgs, kw \in CallKws :
       /\ callArgs' = args
       /\ callKw' = kw
       /\ \E r \in factory_call(decorated, args, kw) : result' = r
  /\ fCalls' = <<>>
  /\ pc' = "done"
  /\ debugCalls' = <<>>
  /\ stdout' = <<>>
  /\ fOutcome' = "none"
  /\ UNCHANGED <<t, now, mono, timerVars, decorated, form, target, given, applied>>

\* f returns: the rest of wrapped runs.
FReturn ==
  /\ pc = "body"
  /\ LET c == fCalls[1]
         r == wrapped_on_return(decorated, t, now, FunReturn(c.fn, c.args, c.kw))
     IN  /\ t' = r.t
         /\ debugCalls' = r.debug
         /\ stdout' = r.out
         /\ result' = r.result
  /\ fOutcome' = "return"
  /\ pc' = "done"
  /\ UNCHANGED <<now, mono, timerVars, decorated, form, target, given, applied,
                 callArgs, callKw, fCalls>>

\* f raises FError: the rest of wrapped runs.
FRaise ==
  /\ pc = "body"
  /\ LET r == wrapped_on_raise(decorated, t, now, "FError")
     IN  /\ t' = r.t
         /\ debugCalls' = r.debug
         /\ stdout' = r.out
         /\ result' = r.result
  /\ fOutcome' = "raise"
  /\ pc' = "done"
  /\ UNCHANGED <<now, mono, timerVars, decorated, form, target, given, applied,
                 callArgs, callKw, fCalls>>

\* ------------------------------------------------------------ specifications
TickTimer == Advance /\ UNCHANGED <<t, mono, timerVars, decoVars>>
TickDeco == Advance /\ UNCHANGED <<t, mono, timerVars, decoVars>>

InitDecoVars ==
  /\ decorated = NoDeco
  /\ form = "none"
  /\ target = NoneObj
  /\ given = NoGiven
  /\ applied = FALSE
  /\ pc = "idle"
  /\ callArgs = <<>>
  /\ callKw = NoKw
  /\ fCalls = <<>>
  /\ debugCalls = <<>>
  /\ stdout = <<>>
  /\ result = NoResult
  /\ fOutcome = "none"

InitTimerVars ==
  /\ scopes = <<>>
  /\ released = FALSE
  /\ lastEnter = 0
  /\ lastExit = 0
  /\ nExit = 0
  /\ lastRead = NoRead
  /\ prevRead = NoRead

\* A Timer just constructed, with any factor, over any time source.
InitTimer ==
  /\ \E f \in Factors : t = Timer_init(f)
  /\ now \in Times
  /\ mono \in BOOLEAN
  /\ InitTimerVars
  /\ InitDecoVars

NextTimer ==
  \/ TickTimer
  \/ (Enter /\ UNCHANGED decoVars)
  \/ (Exit /\ UNCHANGED decoVars)
  \/ (ReadElapsed /\ UNCHANGED decoVars)

SpecTimer == InitTimer /\ [][NextTimer]_vars

\* Nothing decorated yet; no Timer exists before the first invocation.
InitDeco ==
  /\ t = Timer_init(DefaultFactor)
  /\ now \in Times
  /\ mono \in BOOLEAN
  /\ InitTimerVars
  /\ InitDecoVars

NextDeco ==
  \/ TickDeco
  \/ DecorateBare
  \/ DecorateConfigured
  \/ CallTimer
  \/ ApplyFactory
  \/ Invoke
  \/ InvokeFactory
  \/ FReturn
  \/ FRaise

SpecDeco == InitDeco /\ [][NextDeco]_vars


\* ------------------------------------------------------- claims, SpecTimer

\* C1: a Timer whose (latest) __enter__ read a and whose (latest) __exit__
\* read b, a <= b, returns elapsed = (b - a) * factor on every access made
\* after the release.
C1_ElapsedAfterRelease ==
  (released /\ lastRead.kind # "none" /\ lastEnter <= lastExit)
    => /\ lastRead.kind = "frozen"
       /\ lastRead.value = (lastExit - lastEnter) * t.factor

\* C1 witness: a released Timer with factor 2 read after a < b.
C1_Witness ==
  /\ released
  /\ lastRead.kind = "frozen"
  /\ lastEnter < lastExit
  /\ t.factor = 2
  /\ lastRead.value = 2 * (lastExit - lastEnter)

\* C6: after the release elapsed is frozen: every read returns
\* (end - start) * factor, two reads return the same value however far the
\* time source moved between them, and a read neither calls the time source
\* nor changes the Timer.
C6_FrozenAfterRelease ==
  (released /\ lastRead.kind # "none")
    => /\ lastRead.value = (t.end - t.start) * t.factor
       /\ ~lastRead.called
       /\ ~lastRead.mutated
       /\ prevRead.kind # "none" => prevRead.value = lastRead.value

\* C6 witness: two reads after the release, the time source having moved
\* forward between them, of a non-zero elapsed.
C6_Witness ==
  /\ released
  /\ prevRead.kind = "frozen"
  /\ lastRead.kind = "frozen"
  /\ lastRead.at > prevRead.at
  /\ lastRead.value # 0

\* C7 as stated: with a monotonic time source, successive reads of elapsed
\* on an acquired, not yet released Timer are non-decreasing, for every
\* factor.
C7_Original ==
  (mono /\ prevRead.kind = "live" /\ lastRead.kind = "live")
    => lastRead.value >= prevRead.value

\* C7 as amended: the same, for every factor >= 0 (reads taken without a
\* new __enter__ between them).
C7_NonNegativeFactor ==
  (mono /\ t.factor >= 0 /\ prevRead.kind = "live" /\ lastRead.kind = "live")
    => lastRead.value >= prevRead.value

\* C7 witness: two live reads, the second strictly larger.
C7_Witness ==
  /\ mono
  /\ t.factor > 0
  /\ prevRead.kind = "live"
  /\ lastRead.kind = "live"
  /\ lastRead.value > prevRead.value

\* C8: a read of elapsed inside a scope, whichever scope of the Timer it
\* is, returns (reading at the access - start of the current scope) * factor.
C8_LiveInsideScope ==
  (Len(scopes) > 0 /\ lastRead.kind # "none")
    => lastRead.value = (lastRead.at - scopes[Len(scopes)]) * t.factor

C2_BothFormsWrap ==
  form \in {"bare", "configured"}
    => /\ decorated.kind = "wrapper"
       /\ decorated.name = NameOf(target)
       /\ pc = "done"
            => /\ fCalls = <<[fn |-> target, args |-> callArgs, kw |-> callKw]>>
               /\ fOutcome = "return"
                    => result = [kind |-> "return",
                                 val |-> FunReturn(target, callArgs, callKw),
                                 exc |-> "none"]

\* C3 as stated: when f raises, the Timer is released, the elapsed time is
\* reported (one debug call or one printed line) and f's failure propagates.
C3_Original ==
  (pc = "done" /\ fOutcome = "raise")
    => /\ t.end # None
       /\ Len(debugCalls) + Len(stdout) = 1
       /\ result = [kind |-> "raise", val |-> NoVal, exc |-> "FError"]

\* C3 as amended: when f raises, the Timer is released, nothing is reported
\* (no debug call, nothing printed) and f's failure propagates unchanged.
C3_NoReportOnRaise ==
  (pc = "done" /\ fOutcome = "raise")
    => /\ t.end # None
       /\ debugCalls = <<>>
       /\ stdout = <<>>
       /\ result = [kind |-> "raise", val |-> NoVal, exc |-> "FError"]

\* C3 witness: f raised under a wrapper with a logger, after time passed.
C3_Witness ==
  /\ pc = "done"
  /\ fOutcome = "raise"
  /\ decorated.logger = "log"
  /\ t.end > t.start

\* C4: once the with-block of wrapped is entered, __exit__ runs exactly once
\* when the body ends, by return or by exception: not before, end is
\* recorded in both cases, and the body's exception reaches the caller.
C4_ExitOncePerScope ==
  /\ pc = "body" => (t.end = None /\ t.endWrites = 0 /\ t.start # Unset)
  /\ (pc = "done" /\ fOutcome # "none")
       => /\ t.endWrites = 1
          /\ t.end # None
          /\ fOutcome = "raise" => (result.kind = "raise" /\ result.exc = "FError")

\* C4 witness: the body raised, __exit__ ran once, the exception came out.
C4_Witness ==
  /\ pc = "done"
  /\ fOutcome = "raise"
  /\ t.endWrites = 1
  /\ result.exc = "FError"

\* C5: when f returns normally exactly one report is made: with a sink
\* supplied, one debug call with the function's name and the elapsed value
\* and nothing printed; with no sink, one printed line and no debug call.
C5_OneReportPerReturn ==
  (pc = "done" /\ fOutcome = "return" /\ decorated.logger \in Sinks \cup {NoneObj})
    => IF decorated.logger \in Sinks
         THEN /\ debugCalls = <<[template |-> "function %s execution time: %.3f",
                                 name |-> NameOf(decorated.f),
                                 elapsed |-> (t.end - t.start) * t.factor]>>
              /\ stdout = <<>>
         ELSE /\ Len(stdout) = 1
              /\ debugCalls = <<>>

\* C10: timer(logger, *leftover, **kwargs) returns the wrapper of leftover[0]
\* at once exactly when there is one leftover argument and it is callable;
\* otherwise it returns a factory, which gives the wrapper when applied to
\* the target; each invocation's Timer is built from the stored kwargs.
C10_Dispatch ==
  form = "direct"
    => LET leftover == IF Len(given.pos) > 0 THEN Tail(given.pos) ELSE <<>>
           immediate == Len(leftover) = 1 /\ leftover[1] \in Callables
       IN  /\ ~applied
                => /\ decorated.kind = "wrapper" <=> immediate
                   /\ immediate => decorated.f = leftover[1]
                   /\ ~immediate => decorated.kind = "factory"
           /\ applied
                => /\ ~immediate
                   /\ decorated.kind = "wrapper"
                   /\ decorated.f = target
           /\ decorated.timer_kwargs = given.kwargs
           /\ pc \in {"body", "done"} => t.factor = FactorOf(given.kwargs)

\* C10 witness: two leftover arguments, the first callable: a factory, then
\* applied and invoked with the Timer of the stored factor 2.
C10_Witness ==
  /\ form = "direct"
  /\ applied
  /\ Len(given.pos) = 3
  /\ given.pos[2] \in Callables
  /\ pc = "done"
  /\ fOutcome = "return"
  /\ t.factor = 2

====
